---- MODULE Spec2Model ----
(***************************************************************************)
(* Visionary Prompts: the App component (session state held in React       *)
(* state, its four event handlers) and the request adapter                 *)
(* generatePromptFromImage of services/geminiService.ts.                   *)
(*                                                                         *)
(* One step of the model is one browser task: a user event with the whole  *)
(* handler it runs, or the completion of an asynchronous operation (file   *)
(* read, remote call, timer) with every continuation that runs before the  *)
(* next task.  A promise that is already rejected when it is awaited       *)
(* (missing API key) is continued in the microtask queue of the same task, *)
(* so the click and its catch block are one step.                          *)
(***************************************************************************)
EXTENDS Integers, Sequences, FiniteSets, TLC

\* ------------------------------------------------------------------ bounds

\* adapter calls made in one behaviour
MaxRequests == 2
\* copy-acknowledgment timers pending at once
MaxTimers == 2

\* ------------------------------------------------------------ input domains

\* imageFile === null
null == "null"

\* files the user can hand to the upload input
Files == {"photo.png", "cat.jpg", "notes.txt", "scan.bin"}

\* File.type, the declared media type
FileType(file) ==
  CASE file = "photo.png" -> "image/png"
    [] file = "cat.jpg"   -> "image/jpeg"
    [] file = "notes.txt" -> "text/plain"
    [] OTHER              -> "application/x-image/raw"

\* process.env.API_KEY: unset, or set
ApiKeys == {"", "AIza-key"}

\* response.text of the remote model ("" stands for empty or undefined)
Texts == {"", "A golden retriever...", "A red barn at dusk"}

\* response.candidates?.[0]?.finishReason ("NONE": no candidate or no reason)
FinishReasons == {"NONE", "STOP", "SAFETY"}

\* the responses of the remote model: every finish reason with empty text,
\* a text that stopped normally and a text that was flagged
Responses ==
  [text : {""}, finishReason : FinishReasons]
    \cup {[text |-> "A golden retriever...", finishReason |-> "STOP"],
          [text |-> "A red barn at dusk", finishReason |-> "SAFETY"]}

\* a thrown value: an object that may or may not carry a message property
Thrown(m) == [hasMessage |-> TRUE, message |-> m]

\* a rejection value without a message property (the reader's ProgressEvent)
NoMessageThrown == [hasMessage |-> FALSE, message |-> ""]

\* what ai.models.generateContent can reject with
RemoteErrors ==
  { Thrown("API key not valid. Please pass a valid API key."),
    Thrown("Failed to fetch"),
    Thrown(""),
    NoMessageThrown }

\* how the FileReader ends: load (a string result, then loadend) or error
\* (the ProgressEvent of onerror, then loadend with a null result, which
\* rejects a promise that is already rejected)
ReadOutcomes == {"load", "error"}

\* ------------------------------------------------------------------ strings

\* String.prototype.startsWith
StartsWith(s, p) ==
  /\ Len(s) >= Len(p)
  /\ SubSeq(s, 1, Len(p)) = p

\* String.prototype.includes
Includes(s, p) ==
  \E i \in 1..(Len(s) - Len(p) + 1) : SubSeq(s, i, i + Len(p) - 1) = p

\* ----------------------------------------------------------------- messages

InvalidFileMsg == "Please upload a valid image file (PNG, JPG, etc.)."
NotConfiguredMsg == "API key is not configured. Please set up your environment variables."
SafetyMsg == "Could not generate a prompt. The image was blocked due to safety policies."
EmptyMsg == "Failed to generate prompt. The model returned an empty response."
InvalidKeyMsg == "The provided API key is not valid. Please check your configuration."
CommunicationMsg == "An error occurred while communicating with the AI model."
UnexpectedMsg == "An unexpected error occurred. Please try again."
ReadFailedMsg == "Failed to read file as data URL."
\* reading .includes of an undefined message
TypeErrorMsg == "Cannot read properties of undefined (reading 'includes')"
InvalidKeyMarker == "API key not valid"

\* -------------------------------------------------------------------- state

VARIABLES
  imageFile,   \* useState<File | null>
  prompt,      \* useState<string>
  status,      \* useState<Status>
  error,       \* useState<string>
  isCopied,    \* useState<boolean>
  clipboard,   \* navigator.clipboard contents
  timers,      \* pending setTimeout callbacks of handleCopy
  apiKey,      \* process.env.API_KEY
  requests,    \* every call of generatePromptFromImage so far, in order;
               \* a settled call keeps only what it sent
  last         \* the step just taken: operation, input, status before it

vars == <<imageFile, prompt, status, error, isCopied, clipboard, timers,
          apiKey, requests, last>>

Statuses == {"initial", "image-selected", "loading", "success", "error"}

\* indices of the adapter calls whose promise has not settled
Outstanding == {i \in 1..Len(requests) : requests[i].phase # "settled"}

\* number of calls of generatePromptFromImage
AdapterCalls == Len(requests)

\* number of calls of ai.models.generateContent
NetworkCalls == Cardinality({i \in 1..Len(requests) : requests[i].sent = 1})

\* the record of a step: the operation, its input, the status it found
Step(op, arg) == [op |-> op, arg |-> arg, from |-> status]

Init ==
  /\ imageFile = null
  /\ prompt = ""
  /\ status = "initial"
  /\ error = ""
  /\ isCopied = FALSE
  /\ clipboard = ""
  /\ timers = 0
  /\ apiKey \in ApiKeys
  /\ requests = <<>>
  /\ last = Step("load", "")

\* ---------------------------------------------------------- request adapter

\* the adapter without its credential check
HasApiKey_Unchecked == TRUE

\* if (!apiKey) throw ...: the check made before anything is read or sent
HasApiKey == apiKey # ""

\* what fileToGenerativePart rejects with when the read does not load
ReadRejection(outcome) ==
  IF outcome = "error" THEN NoMessageThrown ELSE Thrown(ReadFailedMsg)

\* the catch block of generatePromptFromImage: the Error it throws for e
AdapterCatch(e) ==
  IF ~e.hasMessage THEN Thrown(TypeErrorMsg)
  ELSE IF Includes(e.message, InvalidKeyMarker) THEN Thrown(InvalidKeyMsg)
  ELSE Thrown(IF e.message # "" THEN e.message ELSE CommunicationMsg)

\* the adapter's promise settled: fulfilled with text, or rejected with e
Fulfilled(text) == [ok |-> TRUE, text |-> text, message |-> ""]
Rejected(e) == [ok |-> FALSE, text |-> "", message |-> e.message]

\* the adapter looking at the finish reason before the text
AdapterOnResponse_ReasonFirst(resp) ==
  IF resp.finishReason = "SAFETY" THEN Rejected(AdapterCatch(Thrown(SafetyMsg)))
  ELSE IF resp.text # "" THEN Fulfilled(resp.text)
  ELSE Rejected(AdapterCatch(Thrown(EmptyMsg)))

\* the adapter without the finish-reason check
AdapterOnResponse_NoSafetyCheck(resp) ==
  IF resp.text # "" THEN Fulfilled(resp.text)
  ELSE Rejected(AdapterCatch(Thrown(EmptyMsg)))

\* lines 59-69 and the catch around them: the outcome for a response
AdapterOnResponse(resp) ==
  IF resp.text # "" THEN Fulfilled(resp.text)
  ELSE IF resp.finishReason = "SAFETY"
       THEN Rejected(AdapterCatch(Thrown(SafetyMsg)))
       ELSE Rejected(AdapterCatch(Thrown(EmptyMsg)))

\* the outcome when the read or the remote call rejects with e
AdapterOnRejection(e) == Rejected(AdapterCatch(e))

\* ------------------------------------------------------------ the component

\* {!imageUrl && <label> ... <input onChange={handleImageChange}/>}
UploadInputRendered == imageFile = null

\* {imageUrl && ... <button onClick={resetState}> <button onClick={handleGeneratePrompt}>}
PreviewRendered == imageFile # null

\* the generate button without its disabled attribute
GenerateDisabled_Never == FALSE

\* disabled={status === 'loading'}
GenerateDisabled == status = "loading"

\* {status === 'success' && prompt && ... <button onClick={handleCopy}>}
CopyButtonRendered == status = "success" /\ prompt # ""

\* the media-type test written with includes instead of startsWith
IsImage_Includes(file) == Includes(FileType(file), "image/")

\* file.type.startsWith('image/')
IsImage(file) == StartsWith(FileType(file), "image/")

\* handleImageChange without the return that ends the invalid-file branch
handleImageChange_NoReturn(file) ==
  IF file = null
  THEN UNCHANGED <<imageFile, prompt, status, error>>
  ELSE /\ imageFile' = file
       /\ prompt' = ""
       /\ error' = ""
       /\ status' = "image-selected"

\* handleImageChange without setError('') on a valid image
handleImageChange_KeepsError(file) ==
  IF file = null
  THEN UNCHANGED <<imageFile, prompt, status, error>>
  ELSE IF ~StartsWith(FileType(file), "image/")
  THEN /\ error' = InvalidFileMsg
       /\ status' = "error"
       /\ UNCHANGED <<imageFile, prompt>>
  ELSE /\ imageFile' = file
       /\ prompt' = ""
       /\ status' = "image-selected"
       /\ UNCHANGED error

\* handleImageChange with event.target.files?.[0] = file (null: no file)
handleImageChange(file) ==
  IF file = null
  THEN UNCHANGED <<imageFile, prompt, status, error>>
  ELSE IF ~IsImage(file)
  THEN /\ error' = InvalidFileMsg
       /\ status' = "error"
       /\ UNCHANGED <<imageFile, prompt>>
  ELSE /\ imageFile' = file
       /\ prompt' = ""
       /\ error' = ""
       /\ status' = "image-selected"

\* the catch block without setError
HandleOutcome_NoSetError(outcome) ==
  IF outcome.ok
  THEN /\ prompt' = outcome.text
       /\ status' = "success"
       /\ UNCHANGED error
  ELSE /\ status' = "error"
       /\ UNCHANGED <<prompt, error>>

\* the catch block without setStatus('error')
HandleOutcome_ErrorKeepsStatus(outcome) ==
  IF outcome.ok
  THEN /\ prompt' = outcome.text
       /\ status' = "success"
       /\ UNCHANGED error
  ELSE /\ error' = (IF outcome.message # "" THEN outcome.message ELSE UnexpectedMsg)
       /\ UNCHANGED <<prompt, status>>

\* the continuation of handleGeneratePrompt after the await (lines 45-50)
HandleOutcome(outcome) ==
  IF outcome.ok
  THEN /\ prompt' = outcome.text
       /\ status' = "success"
       /\ UNCHANGED error
  ELSE /\ error' = (IF outcome.message # "" THEN outcome.message ELSE UnexpectedMsg)
       /\ status' = "error"
       /\ UNCHANGED prompt

\* the record of a call whose promise has settled
Settled(r) ==
  [r EXCEPT !.phase = "settled", !.img = null, !.abandoned = FALSE]

\* a new call of generatePromptFromImage(imageFile) whose promise is pending
NewRequest ==
  [img |-> imageFile, phase |-> "reading", sent |-> 0, abandoned |-> FALSE]

\* a call of generatePromptFromImage(imageFile) that threw before any await
FailedRequest == Settled(NewRequest)

\* handleGeneratePrompt calling the adapter a second time (a retry)
handleGeneratePrompt_CallsTwice ==
  IF imageFile = null
  THEN UNCHANGED <<prompt, status, error, requests>>
  ELSE IF apiKey = ""
  THEN /\ prompt' = ""
       /\ error' = NotConfiguredMsg
       /\ status' = "error"
       /\ requests' = Append(requests, FailedRequest)
  ELSE /\ status' = "loading"
       /\ error' = ""
       /\ prompt' = ""
       /\ requests' = Append(Append(requests, NewRequest), NewRequest)

\* handleGeneratePrompt up to the await, and past it when the adapter
\* rejects at once
handleGeneratePrompt ==
  IF imageFile = null
  THEN UNCHANGED <<prompt, status, error, requests>>
  ELSE IF ~HasApiKey
  THEN /\ prompt' = ""
       /\ error' = NotConfiguredMsg
       /\ status' = "error"
       /\ requests' = Append(requests, FailedRequest)
  ELSE /\ status' = "loading"
       /\ error' = ""
       /\ prompt' = ""
       /\ requests' = Append(requests, NewRequest)

\* handleCopy without the setTimeout that clears the flag
handleCopy_NoTimer ==
  IF prompt # ""
  THEN /\ clipboard' = prompt
       /\ isCopied' = TRUE
       /\ UNCHANGED timers
  ELSE UNCHANGED <<clipboard, isCopied, timers>>

\* handleCopy
handleCopy ==
  IF prompt # ""
  THEN /\ clipboard' = prompt
       /\ isCopied' = TRUE
       /\ timers' = timers + 1
  ELSE UNCHANGED <<clipboard, isCopied, timers>>

\* resetState without setPrompt('')
resetState_KeepsPrompt ==
  /\ imageFile' = null
  /\ error' = ""
  /\ status' = "initial"
  /\ UNCHANGED prompt

\* resetState; an outstanding call is left running
resetState ==
  /\ imageFile' = null
  /\ prompt' = ""
  /\ error' = ""
  /\ status' = "initial"

\* ------------------------------------------------------------------ actions

\* the user picks file in the upload input
SelectImage(file) ==
  /\ UploadInputRendered
  /\ handleImageChange(file)
  /\ last' = Step("select", file)
  /\ UNCHANGED <<isCopied, clipboard, timers, apiKey, requests>>

\* the user activates the generate trigger
RequestGeneration ==
  /\ Len(requests) < MaxRequests
  /\ IF GenerateDisabled
     THEN UNCHANGED <<prompt, status, error, requests>>
     ELSE handleGeneratePrompt
  /\ last' = Step("generate", IF GenerateDisabled THEN "disabled"
                               ELSE IF imageFile = null THEN "no image"
                               ELSE "called")
  /\ UNCHANGED <<imageFile, isCopied, clipboard, timers, apiKey>>

\* the user clicks the reset button on the preview
Reset ==
  /\ PreviewRendered
  /\ resetState
  /\ requests' = [i \in 1..Len(requests) |->
                    IF requests[i].phase # "settled"
                    THEN [requests[i] EXCEPT !.abandoned = TRUE]
                    ELSE requests[i]]
  /\ last' = Step("reset", "")
  /\ UNCHANGED <<isCopied, clipboard, timers, apiKey>>

\* the copy control clearing the prompt once it is copied
CopyPrompt_ClearsPrompt ==
  /\ timers < MaxTimers
  /\ CopyButtonRendered \/ prompt = ""
  /\ handleCopy
  /\ prompt' = ""
  /\ last' = Step("copy", "")
  /\ UNCHANGED <<imageFile, status, error, apiKey, requests>>

\* the user activates the copy control: the button is there only beside a
\* displayed prompt; without a prompt handleCopy has nothing to do
CopyPrompt ==
  /\ timers < MaxTimers
  /\ CopyButtonRendered \/ prompt = ""
  /\ handleCopy
  /\ last' = Step("copy", "")
  /\ UNCHANGED <<imageFile, prompt, status, error, apiKey, requests>>

\* setTimeout(() => setIsCopied(false), 2000) fires
CopyTimeout ==
  /\ timers > 0
  /\ isCopied' = FALSE
  /\ timers' = timers - 1
  /\ last' = Step("timeout", "")
  /\ UNCHANGED <<imageFile, prompt, status, error, clipboard, apiKey, requests>>

\* the FileReader of call i ends; on load the remote call is made
FileReadDone(i, outcome) ==
  /\ i \in 1..Len(requests)
  /\ requests[i].phase = "reading"
  /\ last' = Step("read", [req |-> i, outcome |-> outcome])
  /\ IF outcome = "load"
     THEN /\ requests' = [requests EXCEPT ![i].phase = "calling", ![i].sent = @ + 1]
          /\ UNCHANGED <<prompt, status, error>>
     ELSE /\ requests' = [requests EXCEPT ![i] = Settled(@)]
          /\ HandleOutcome(AdapterOnRejection(ReadRejection(outcome)))
  /\ UNCHANGED <<imageFile, isCopied, clipboard, timers, apiKey>>

\* ai.models.generateContent of call i resolves with resp
RemoteResponds(i, resp) ==
  /\ i \in 1..Len(requests)
  /\ requests[i].phase = "calling"
  /\ last' = Step("respond", [req |-> i, resp |-> resp])
  /\ requests' = [requests EXCEPT ![i] = Settled(@)]
  /\ HandleOutcome(AdapterOnResponse(resp))
  /\ UNCHANGED <<imageFile, isCopied, clipboard, timers, apiKey>>

\* ai.models.generateContent of call i rejects with e
RemoteFails(i, e) ==
  /\ i \in 1..Len(requests)
  /\ requests[i].phase = "calling"
  /\ last' = Step("fail", [req |-> i, e |-> e])
  /\ requests' = [requests EXCEPT ![i] = Settled(@)]
  /\ HandleOutcome(AdapterOnRejection(e))
  /\ UNCHANGED <<imageFile, isCopied, clipboard, timers, apiKey>>

Next ==
  \/ \E file \in Files \cup {null} : SelectImage(file)
  \/ RequestGeneration
  \/ Reset
  \/ CopyPrompt
  \/ CopyTimeout
  \/ \E i \in 1..MaxRequests, outcome \in ReadOutcomes : FileReadDone(i, outcome)
  \/ \E i \in 1..MaxRequests, resp \in Responses : RemoteResponds(i, resp)
  \/ \E i \in 1..MaxRequests, e \in RemoteErrors : RemoteFails(i, e)

Spec == Init /\ [][Next]_vars

\* one step of the adapter call number i towards its end: the file read
\* finishes, or the remote model answers or fails
Resolution(i) ==
  /\ i \in 1..Len(requests)
  /\ requests[i].phase # "settled"
  /\ \/ \E outcome \in ReadOutcomes : FileReadDone(i, outcome)
     \/ \E resp \in Responses : RemoteResponds(i, resp)
     \/ \E e \in RemoteErrors : RemoteFails(i, e)

\* adapter calls that were issued keep making progress: the promise
\* returned by generatePromptFromImage is settled by the file reader and the
\* network, which do not wait for the user.  (A step of a call stays enabled
\* until that call takes it, so this follows from every single call
\* eventually ending.)
FairSpec == Spec /\ WF_vars(\E i \in 1..MaxRequests : Resolution(i))

\* ------------------------------------------------------------------- claims

\* the step just taken was made with a file whose type starts with image/
SelectedValid(step) ==
  /\ step.op = "select"
  /\ step.arg # null
  /\ StartsWith(FileType(step.arg), "image/")

\* the step just taken was made with a file whose type does not
SelectedInvalid(step) ==
  /\ step.op = "select"
  /\ step.arg # null
  /\ ~StartsWith(FileType(step.arg), "image/")

\* C1: in every reachable state at most one generation request is
\* outstanding (issued but not yet resolved).
C1_AtMostOneOutstanding == Cardinality(Outstanding) <= 1

\* C2: requestGeneration with no image selected, or with status loading,
\* changes no session field and makes no call of the request adapter.
C2_GenerateIsNoOp ==
  [][(last'.op = "generate" /\ (imageFile = null \/ status = "loading"))
       => UNCHANGED <<imageFile, prompt, status, error, isCopied, clipboard,
                      timers, requests>>]_vars

\* requestGeneration was invoked while a request was in flight and loading shown
C2_Witness ==
  /\ last.op = "generate"
  /\ last.arg = "disabled"
  /\ status = "loading"
  /\ Outstanding # {}

\* C3: when a call that was in flight at a reset resolves, with success or
\* failure, status, image, prompt and error stay as they were just before.
C3_AbandonedResultDiscarded ==
  [][\A i \in Outstanding :
       (requests[i].abandoned /\ requests'[i].phase = "settled")
         => UNCHANGED <<status, imageFile, prompt, error>>]_vars

\* C4: selectImage with a file whose type does not start with image/ sets
\* status error with a message mentioning a valid image file, makes no call,
\* and leaves the selected image as it was.
C4_InvalidFileRejected ==
  [][SelectedInvalid(last')
       => /\ status' = "error"
          /\ Includes(error', "valid image file")
          /\ imageFile' = imageFile
          /\ requests' = requests]_vars

\* a file that only mentions image/ was refused while a call was in flight
C4_Witness ==
  /\ last.op = "select"
  /\ last.arg = "scan.bin"
  /\ status = "error"
  /\ error = InvalidFileMsg
  /\ Outstanding # {}

\* C5: selectImage with a valid image sets status image-selected, that file
\* as the selected image, and prompt and error empty, whatever was held.
C5_ValidImageSelected ==
  [][SelectedValid(last')
       => /\ status' = "image-selected"
          /\ imageFile' = last'.arg
          /\ prompt' = ""
          /\ error' = ""]_vars

\* a valid image was selected in a session that showed an error
C5_Witness ==
  /\ last.op = "select"
  /\ last.from = "error"
  /\ imageFile = "cat.jpg"
  /\ status = "image-selected"
  /\ error = ""

\* the adapter call made by the step, when the step made exactly one
NewCall == requests'[Len(requests')]

\* C6 as stated: selectImage with a valid image followed immediately by
\* requestGeneration issues exactly one outbound call, never zero: the call
\* of the adapter it makes is never over without one outbound request.
C6_ExactlyOneOutboundCall ==
  [][(SelectedValid(last) /\ last'.op = "generate")
       => /\ AdapterCalls' = AdapterCalls + 1
          /\ NewCall.phase = "settled" => NewCall.sent = 1]_vars

\* C6 as amended: selectImage with a valid image followed immediately by
\* requestGeneration makes exactly one call of the request adapter; that call
\* issues exactly one outbound request, when its file has been read, if the
\* credential is configured, and none if the credential is absent or the
\* file cannot be read; no call ever issues more than one.
C6_OneAdapterCallAtMostOneRequest ==
  [][/\ (SelectedValid(last) /\ last'.op = "generate")
          => /\ AdapterCalls' = AdapterCalls + 1
             /\ NetworkCalls' = NetworkCalls
             /\ NewCall.sent = 0
             /\ IF apiKey = ""
                THEN NewCall.phase = "settled"
                ELSE NewCall.phase = "reading" /\ NewCall.img = last.arg
     /\ \A i \in 1..Len(requests) :
          /\ requests'[i].sent \in {requests[i].sent, 1}
          /\ requests'[i].sent # requests[i].sent
               => /\ last'.op = "read"
                  /\ last'.arg = [req |-> i, outcome |-> "load"]
                  /\ apiKey # ""
          /\ (last'.op = "read" /\ last'.arg.req = i)
               => requests'[i].sent = (IF last'.arg.outcome = "load" THEN 1 ELSE 0)
          /\ requests[i].phase = "calling" => requests[i].sent = 1]_vars

\* the call made right after selecting a valid image has sent its one request
C6_Witness ==
  /\ last.op = "read"
  /\ last.arg.outcome = "load"
  /\ requests[last.arg.req].sent = 1
  /\ requests[last.arg.req].phase = "calling"
  /\ NetworkCalls = 1
  /\ AdapterCalls = 1

\* C7: when the remote response carries non-empty text, the session ends
\* the step in status success with exactly that text as its prompt.
C7_SuccessShowsText ==
  [][(last'.op = "respond" /\ last'.arg.resp.text # "")
       => /\ status' = "success"
          /\ prompt' = last'.arg.resp.text]_vars

\* a flagged but non-empty text is displayed
C7_Witness ==
  /\ last.op = "respond"
  /\ last.arg.resp = [text |-> "A red barn at dusk", finishReason |-> "SAFETY"]
  /\ status = "success"
  /\ prompt = "A red barn at dusk"
  /\ imageFile # null

\* C8: with no credential, requestGeneration with an image selected ends in
\* status error with the 'API key is not configured' message, with no
\* outbound request and no call left outstanding.
C8_MissingKeyFailsAtOnce ==
  [][(last'.op = "generate" /\ apiKey = "" /\ imageFile # null)
       => /\ status' = "error"
          /\ Includes(error', "API key is not configured")
          /\ NetworkCalls' = NetworkCalls
          /\ Outstanding' = {}]_vars

\* requestGeneration was refused for the missing credential
C8_Witness ==
  /\ last.op = "generate"
  /\ last.arg = "called"
  /\ apiKey = ""
  /\ imageFile # null
  /\ status = "error"
  /\ error = NotConfiguredMsg

\* C9: a response with empty text ends in status error, with the safety
\* message if the first candidate's finish reason is SAFETY and the
\* empty-response message otherwise; a response ends in success exactly
\* when its text is non-empty.
C9_EmptyResponseIsError ==
  [][last'.op = "respond"
       => LET resp == last'.arg.resp IN
          /\ resp.text = ""
               => /\ status' = "error"
                  /\ error' = (IF resp.finishReason = "SAFETY"
                               THEN SafetyMsg ELSE EmptyMsg)
          /\ (status' = "success") <=> (resp.text # "")]_vars

\* an empty response with finish reason SAFETY was reported as blocked
C9_Witness ==
  /\ last.op = "respond"
  /\ last.arg.resp = [text |-> "", finishReason |-> "SAFETY"]
  /\ status = "error"
  /\ error = SafetyMsg

\* C10: reset from any state yields status initial with image, prompt and
\* error cleared.
C10_ResetClears ==
  [][last'.op = "reset"
       => /\ status' = "initial"
          /\ imageFile' = null
          /\ prompt' = ""
          /\ error' = ""]_vars

\* reset was taken while a request was in flight
C10_Witness ==
  /\ last.op = "reset"
  /\ last.from = "loading"
  /\ Outstanding # {}
  /\ status = "initial"
  /\ imageFile = null

\* C11: in every reachable state with status error the stored error
\* message is non-empty.
C11_ErrorHasMessage == status = "error" => error # ""

\* a remote failure with an empty message is shown with the generic message
C11_Witness ==
  /\ last.op = "fail"
  /\ last.arg.e = Thrown("")
  /\ status = "error"
  /\ error = CommunicationMsg

\* C12: copyPrompt with a prompt present writes that prompt to the clipboard,
\* sets the acknowledgment flag and schedules the one timer that clears it;
\* the flag is false when a timer fires, and is never true without a timer
\* pending; with no prompt copyPrompt changes nothing.
C12_CopyAcknowledged ==
  [][/\ last'.op = "copy"
          => IF prompt # ""
             THEN /\ clipboard' = prompt
                  /\ isCopied' = TRUE
                  /\ timers' = timers + 1
             ELSE UNCHANGED <<clipboard, isCopied, timers>>
     /\ last'.op = "timeout" => (isCopied' = FALSE /\ timers' = timers - 1)
     /\ isCopied' => timers' > 0]_vars

\* the flag was cleared after a copy of the displayed prompt
C12_Witness ==
  /\ last.op = "timeout"
  /\ isCopied = FALSE
  /\ timers = 0
  /\ clipboard = "A golden retriever..."
  /\ prompt = clipboard

\* C13: copyPrompt and the timer that clears its flag leave status, selected
\* image, prompt and error unchanged.
C13_CopyIsNoTransition ==
  [][last'.op \in {"copy", "timeout"}
       => UNCHANGED <<status, imageFile, prompt, error, requests>>]_vars

\* a prompt was copied and is still displayed
C13_Witness ==
  /\ last.op = "copy"
  /\ isCopied = TRUE
  /\ status = "success"
  /\ prompt # ""
  /\ clipboard = prompt

\* C14: every reachable state fits the description of its status: initial
\* has no image, prompt or error; image-selected and loading have an image
\* and neither prompt nor error; success has an image, a prompt and no
\* error; error has an error message and no prompt.
C14_StateDescriptions ==
  /\ status = "initial" => (imageFile = null /\ prompt = "" /\ error = "")
  /\ status = "image-selected" => (imageFile # null /\ prompt = "" /\ error = "")
  /\ status = "loading" => (imageFile # null /\ prompt = "" /\ error = "")
  /\ status = "success" => (imageFile # null /\ prompt # "" /\ error = "")
  /\ status = "error" => (error # "" /\ prompt = "")

\* C15: the status is loading exactly when a generation request is
\* outstanding.
C15_LoadingIffOutstanding == (status = "loading") <=> (Outstanding # {})

\* what kind of step was taken: a resolution is the end of an adapter call
StepKind(step) ==
  IF SelectedValid(step) THEN "select valid"
  ELSE IF SelectedInvalid(step) THEN "select invalid"
  ELSE IF step.op \in {"generate", "reset"} THEN step.op
  ELSE IF step.op \in {"respond", "fail"} THEN "resolution"
  ELSE IF step.op = "read" /\ step.arg.outcome = "error" THEN "resolution"
  ELSE "other"

\* the transitions listed for the session state machine
ListedTransitions ==
  {<<"initial", "select valid", "image-selected">>,
   <<"initial", "select invalid", "error">>,
   <<"image-selected", "generate", "loading">>,
   <<"loading", "resolution", "success">>,
   <<"loading", "resolution", "error">>,
   <<"image-selected", "reset", "initial">>,
   <<"success", "reset", "initial">>,
   <<"error", "reset", "initial">>,
   <<"success", "select valid", "image-selected">>,
   <<"error", "select valid", "image-selected">>}

\* C16 as stated: every step that changes the status is a listed
\* transition: loading is entered only from image-selected by generate and
\* left only by a resolution, reset is taken only from image-selected,
\* success or error, image-selected is entered only by a valid selection.
\* (a call refused for the missing credential takes generate and its
\* resolution, image-selected to loading to error, within one step)
C16_OnlyListedTransitions ==
  [][status' # status
       => \/ <<status, StepKind(last'), status'>> \in ListedTransitions
          \/ /\ apiKey = ""
             /\ <<status, StepKind(last'), status'>>
                  = <<"image-selected", "generate", "error">>]_vars

\* C16 as amended: every step that changes the status is generate from
\* image-selected, success or error, entering loading (error at once when
\* the credential is missing); or a resolution, entering success or error
\* from whatever status the session is in; or reset from image-selected,
\* loading, success or error, entering initial; or a valid selection,
\* entering image-selected; or an invalid selection, entering error.  So
\* loading is entered only by generate and left only by a resolution or by
\* reset, and image-selected is entered only by a valid selection.
C16_ActualTransitions ==
  [][status' # status
       => LET kind == StepKind(last') IN
          /\ kind \in {"generate", "resolution", "reset", "select valid",
                       "select invalid"}
          /\ kind = "generate"
               => /\ status \in {"image-selected", "success", "error"}
                  /\ status' = (IF apiKey = "" THEN "error" ELSE "loading")
          /\ kind = "resolution" => status' \in {"success", "error"}
          /\ kind = "reset"
               => /\ status \in {"image-selected", "loading", "success", "error"}
                  /\ status' = "initial"
          /\ kind = "select valid" => status' = "image-selected"
          /\ kind = "select invalid" => status' = "error"
          /\ status' = "loading" => kind = "generate"
          /\ status = "loading" => kind \in {"resolution", "reset"}
          /\ status' = "image-selected" => kind = "select valid"]_vars

\* generation was requested again from success
C16_Witness ==
  /\ last.op = "generate"
  /\ last.from = "success"
  /\ status = "loading"
  /\ Cardinality(Outstanding) = 1

\* C17: the resolution of a request applies one status transition, taken
\* from loading; it never changes the status of a session that is in
\* initial, image-selected, success or error.
C17_ResolutionOnlyFromLoading ==
  [][StepKind(last') = "resolution"
       => IF status = "loading"
          THEN status' \in {"success", "error"}
          ELSE status' = status]_vars

\* C18: when the remote call fails the outcome shown is the 'API key is not
\* valid' message if the underlying message contains the marker, and the
\* underlying message unchanged otherwise (the adapter's generic message
\* when there is no message to carry); the adapter's own safety and
\* empty-response errors keep their message.
C18_FailureMessage ==
  [][/\ last'.op = "fail"
          => LET e == last'.arg.e IN
             /\ status' = "error"
             /\ error' = (IF e.hasMessage /\ Includes(e.message, InvalidKeyMarker)
                            THEN InvalidKeyMsg
                          ELSE IF e.hasMessage /\ e.message # ""
                            THEN e.message
                          ELSE CommunicationMsg)
             /\ error' # NotConfiguredMsg
     /\ (last'.op = "respond" /\ last'.arg.resp.text = "")
          => error' \in {SafetyMsg, EmptyMsg}]_vars

\* C19: whenever a result is put on display (status success is entered,
\* which only a response does, and the image cannot change while the status
\* stays success) it is the result of a request issued with the image that
\* is selected.
C19_PromptMatchesImage ==
  [][(last'.op = "respond" /\ status' = "success")
       => requests[last'.arg.req].img = imageFile']_vars

\* C20: when every issued adapter call eventually ends, every loading state
\* is followed by a state whose status is success, error or (after a reset)
\* initial, and the status is never loading once no issued call is left
\* unresolved.
C20_LoadingEnds ==
  /\ (status = "loading") ~> (status \in {"success", "error", "initial"})
  /\ [](Outstanding = {} => status # "loading")

\* a call issued from loading has ended with a failure and nothing is left
\* in flight
C20_Witness ==
  /\ last.op \in {"fail", "read"}
  /\ last.from = "loading"
  /\ status = "error"
  /\ Outstanding = {}

====
